---- MODULE Spec2Model ----
(***************************************************************************)
(* Model of camera_analysis.py: one capture thread, the Flask request      *)
(* handlers (POST /connect, GET /, GET /snapshot) and the MJPEG stream     *)
(* generators, sharing the globals camera / camera_lock and                *)
(* frame_buffer / buffer_lock.                                             *)
(***************************************************************************)
EXTENDS Integers, Sequences, FiniteSets, TLC

\* ------------------------------------------------------------------ bounds
MaxFrames == 2      \* successful device reads in one run
MaxHandles == 2     \* cv2.VideoCapture objects created in one run

\* ----------------------------------------------------------------- threads
Cap == "capture"
Conn == "connect"
Idx == "index"
Streams == {"stream1"}
Snapshots == {"snapshot1"}
Readers == Streams \cup Snapshots
Free == "free"

\* ------------------------------------------------------------------ values
NoCfg == [fourcc |-> <<>>, width |-> 0, height |-> 0]
DriverCfg == [fourcc |-> <<"Y", "U", "Y", "V">>, width |-> 640, height |-> 480]
None == [id |-> 0, dev |-> "None", cfg |-> NoCfg]
BackendId == "CAP_V4L2"
DefaultDevice == "/dev/video0"
PresentDevices == {"/dev/video0"}
DeviceFields == {<<>>, <<"/dev/video0">>, <<"/dev/missing">>}
\* the (fourcc, width, height) form fields a request is drawn from
FormCases == {
    [fourcc |-> <<>>, width |-> <<>>, height |-> <<>>],
    [fourcc |-> <<"M", "J", "P", "G">>, width |-> <<"1", "2", "8", "0">>,
     height |-> <<"7", "2", "0">>],
    [fourcc |-> <<"M", "J">>, width |-> <<>>, height |-> <<>>],
    [fourcc |-> <<>>, width |-> <<"x">>, height |-> <<>>],
    [fourcc |-> <<>>, width |-> <<"sup2">>, height |-> <<"7", "2", "0">>]}

NoPixels == [seq |-> 0, hid |-> 0]
NoFrame == [top |-> NoPixels, bot |-> NoPixels]
BlackPixels == [seq |-> 0, hid |-> 0 - 1]
Placeholder == [top |-> BlackPixels, bot |-> BlackPixels]
NoArgs == [device |-> "", fourcc |-> <<>>, width |-> <<>>, height |-> <<>>]
NoJpeg == [jpeg |-> NoFrame]
NoResponse == [code |-> 0, body |-> "none", data |-> NoJpeg]
NoStatus == [status |-> "none", info |-> NoCfg]

VARIABLES
    camera,                \* global camera: None or the current VideoCapture
    opened,                \* ids of the VideoCapture objects that are open
    nextHandle,            \* id of the next VideoCapture object
    camera_lock,           \* holder of camera_lock, or Free
    frame_buffer,          \* global frame_buffer: NoFrame (None) or a frame
    buffer_lock,           \* holder of buffer_lock, or Free
    nextFrame,             \* sequence number of the next frame the device delivers
    cap_pc,                \* position of camera_capture_thread
    consecutive_failures,  \* its local counter
    cap_frame,             \* its local frame
    conn_pc,               \* position of the POST /connect request
    conn_args,             \* (device, fourcc, width, height) passed to open_camera
    conn_resp,             \* its response
    idx_pc,                \* position of the GET / request
    idx_status,            \* camera_status / camera_info it renders
    rd_pc,                 \* position of each stream generator / snapshot request
    rd_src,                \* the array object a reader's copy() is reading
    rd_img,                \* each reader's local img
    rd_out,                \* last chunk yielded (stream) / response (snapshot)
    published,             \* history: frames assigned to frame_buffer, in order
    maxGiven,              \* history: newest frame sequence number given to a reader
    conn_prev,             \* history: a device was open when open_camera began
    failed_on              \* history (SpecRecovery): handles read in the current run of failed reads

vars == <<camera, opened, nextHandle, camera_lock, frame_buffer, buffer_lock,
          nextFrame, cap_pc, consecutive_failures, cap_frame, conn_pc,
          conn_args, conn_resp, idx_pc, idx_status, rd_pc, rd_src, rd_img,
          rd_out, published, maxGiven, conn_prev, failed_on>>

devVars == <<camera, opened, nextHandle, camera_lock>>
bufVars == <<frame_buffer, buffer_lock, published>>
capVars == <<cap_pc, consecutive_failures, cap_frame, nextFrame, failed_on>>
connVars == <<conn_pc, conn_args, conn_resp, conn_prev>>
idxVars == <<idx_pc, idx_status>>
rdVars == <<rd_pc, rd_src, rd_img, rd_out, maxGiven>>

\* ----------------------------------------------------------------- helpers
\* threading.Lock: acquire succeeds only when nobody holds the lock
CanAcquire_NoExclusion(lock) == TRUE
CanAcquire(lock) == lock = Free

\* camera.isOpened()
isOpened(cam) == cam.id \in opened

\* camera is None or not camera.isOpened()
NotConnected == camera = None \/ ~isOpened(camera)

\* camera.read() returns a freshly allocated array
MkFrame(seq, hid) == [top |-> [seq |-> seq, hid |-> hid],
                      bot |-> [seq |-> seq, hid |-> hid]]

\* frame_buffer = frame
Publish_KeepFirst(old, new) == IF old = NoFrame THEN new ELSE old
Publish(old, new) == new

\* cv2.imencode('.jpg', img) on success
Jpeg(img) == [jpeg |-> img]

\* ------------------------------------------------- POST /connect (166-183)
Digits == {"0", "1", "2", "7", "8"}
DigitVal == [c \in Digits |-> CASE c = "0" -> 0 [] c = "1" -> 1 [] c = "2" -> 2
                                [] c = "7" -> 7 [] c = "8" -> 8]

\* str.isdigit(): non-empty and every character is a digit, which includes
\* the non-ASCII digits such as SUPERSCRIPT TWO (written "sup2" here)
isdigit(s) == Len(s) > 0 /\ \A i \in 1..Len(s) : s[i] \in Digits \cup {"sup2"}

\* int(s) raises ValueError on anything but decimal digits
IntRaises(s) == \E i \in 1..Len(s) : s[i] \notin Digits

RECURSIVE int(_)
int(s) == IF Len(s) = 0 THEN 0
          ELSE 10 * int(SubSeq(s, 1, Len(s) - 1)) + DigitVal[s[Len(s)]]

\* width = int(width) if width.isdigit() else None      (<<>> is None)
ParseDim(s) == IF isdigit(s) THEN <<int(s)>> ELSE <<>>

\* request.form.get('device', '/dev/video0')
FormDevice(f) == IF f = <<>> THEN DefaultDevice ELSE f[1]

\* Python truth value of an optional int: None and 0 are false
Truthy(opt) == opt # <<>> /\ opt[1] # 0

\* cv2.VideoCapture(path, cv2.CAP_V4L2): a device that is not there never
\* opens; one that is there may still be busy or refused by the driver
OpenOutcomes(path) == IF path \in PresentDevices THEN BOOLEAN ELSE {FALSE}

NewHandle(path, ok) == [id |-> nextHandle, dev |-> path,
                        cfg |-> IF ok THEN DriverCfg ELSE NoCfg]

ConnStart ==
    /\ conn_pc = "idle"
    /\ nextHandle <= MaxHandles
    /\ \E d \in DeviceFields, form \in FormCases :
          IF \/ isdigit(form.width) /\ IntRaises(form.width)
             \/ isdigit(form.height) /\ IntRaises(form.height)
          THEN /\ conn_pc' = "done"
               /\ conn_resp' = [code |-> 500, body |-> "ValueError", data |-> NoJpeg]
               /\ UNCHANGED conn_args
          ELSE /\ conn_pc' = "lock"
               /\ conn_args' = [device |-> FormDevice(d), fourcc |-> form.fourcc,
                                width |-> ParseDim(form.width),
                                height |-> ParseDim(form.height)]
               /\ UNCHANGED conn_resp
    /\ UNCHANGED <<devVars, bufVars, capVars, idxVars, rdVars, conn_prev>>

\* open_camera, lines 41-44: take camera_lock, release the camera that is open
ReleaseOld_Keep(cam) == opened
ReleaseOld(cam) == IF cam # None /\ isOpened(cam) THEN opened \ {cam.id} ELSE opened

ConnAcquire ==
    /\ conn_pc = "lock"
    /\ CanAcquire(camera_lock)
    /\ camera_lock' = Conn
    /\ conn_prev' = (camera # None /\ isOpened(camera))
    /\ opened' = ReleaseOld(camera)
    /\ conn_pc' = "create"
    /\ UNCHANGED <<camera, nextHandle, bufVars, capVars, idxVars, rdVars,
                   conn_args, conn_resp>>

\* open_camera, lines 47-51
ConnCreate ==
    /\ conn_pc = "create"
    /\ \E ok \in OpenOutcomes(conn_args.device) :
          /\ camera' = NewHandle(conn_args.device, ok)
          /\ nextHandle' = nextHandle + 1
          /\ IF ok
             THEN /\ opened' = opened \cup {nextHandle}
                  /\ conn_pc' = "config"
                  /\ UNCHANGED <<camera_lock, conn_resp>>
             ELSE /\ opened' = opened
                  /\ camera_lock' = Free
                  /\ conn_pc' = "done"
                  /\ conn_resp' = [code |-> 400, body |-> "Failed to connect to camera",
                                   data |-> NoJpeg]
    /\ UNCHANGED <<bufVars, capVars, idxVars, rdVars, conn_args, conn_prev>>

\* camera.set is best effort: the driver takes the value or keeps its own
Negotiated(cfg, fourcc, width, height, take) ==
    [fourcc |-> IF fourcc # <<>> /\ take THEN fourcc ELSE cfg.fourcc,
     width  |-> IF Truthy(width) /\ Truthy(height) /\ take THEN width[1] ELSE cfg.width,
     height |-> IF Truthy(width) /\ Truthy(height) /\ take THEN height[1] ELSE cfg.height]

\* open_camera, lines 54-75; cv2.VideoWriter_fourcc(*fourcc) takes exactly
\* four characters and raises TypeError otherwise
ConnConfig ==
    /\ conn_pc = "config"
    /\ camera_lock' = Free
    /\ conn_pc' = "done"
    /\ IF conn_args.fourcc # <<>> /\ Len(conn_args.fourcc) # 4
       THEN /\ conn_resp' = [code |-> 500, body |-> "TypeError", data |-> NoJpeg]
            /\ UNCHANGED camera
       ELSE /\ \E take \in BOOLEAN :
                 camera' = [camera EXCEPT !.cfg =
                              Negotiated(camera.cfg, conn_args.fourcc, conn_args.width,
                                         conn_args.height, take)]
            /\ conn_resp' = [code |-> 200, body |-> "Camera connected successfully",
                             data |-> NoJpeg]
    /\ UNCHANGED <<opened, nextHandle, bufVars, capVars, idxVars, rdVars,
                   conn_args, conn_prev>>

\* the response has been sent; the next request may arrive
ConnFinish ==
    /\ conn_pc = "done"
    /\ conn_pc' = "idle"
    /\ conn_args' = NoArgs
    /\ conn_resp' = NoResponse
    /\ conn_prev' = FALSE
    /\ UNCHANGED <<devVars, bufVars, capVars, idxVars, rdVars>>

\* ---------------------------------------------------------- GET / (135-149)
IdxAcquire ==
    /\ idx_pc = "lock"
    /\ CanAcquire(camera_lock)
    /\ camera_lock' = Idx
    /\ idx_pc' = "query"
    /\ idx_status' = NoStatus
    /\ UNCHANGED <<camera, opened, nextHandle, bufVars, capVars, connVars, rdVars>>

IdxQuery ==
    /\ idx_pc = "query"
    /\ idx_status' = IF NotConnected
                     THEN [status |-> "Not connected", info |-> NoCfg]
                     ELSE [status |-> "Connected", info |-> camera.cfg]
    /\ camera_lock' = Free
    /\ idx_pc' = "done"
    /\ UNCHANGED <<camera, opened, nextHandle, bufVars, capVars, connVars, rdVars>>

IdxFinish ==
    /\ idx_pc = "done"
    /\ idx_pc' = "lock"
    /\ UNCHANGED <<idx_status, devVars, bufVars, capVars, connVars, rdVars>>

\* --------------------------------------- camera_capture_thread (77-108)
\* line 85-90: take camera_lock; idle (sleeping on the lock) when no device
\* is open, else start camera.read()
CapAcquire ==
    /\ cap_pc = "lock"
    /\ CanAcquire(camera_lock)
    /\ camera_lock' = Cap
    /\ cap_pc' = IF NotConnected THEN "idle" ELSE "read"
    /\ UNCHANGED <<camera, opened, nextHandle, bufVars, consecutive_failures, failed_on,
                   cap_frame, nextFrame, connVars, idxVars, rdVars>>

\* a continue that would jump to the top of the loop still holding the lock
CapIdleWake_KeepLock ==
    /\ cap_pc = "idle"
    /\ cap_pc' = "lock"
    /\ UNCHANGED <<devVars, bufVars, consecutive_failures, failed_on,
                   cap_frame, nextFrame, connVars, idxVars, rdVars>>

\* line 87-88: time.sleep(0.5) ends; continue leaves the with block
CapIdleWake ==
    /\ cap_pc = "idle"
    /\ camera_lock' = Free
    /\ cap_pc' = "lock"
    /\ UNCHANGED <<camera, opened, nextHandle, bufVars, consecutive_failures, failed_on,
                   cap_frame, nextFrame, connVars, idxVars, rdVars>>

\* the threshold of line 100
FailureThreshold == 5

\* line 92-100 after a failed read: the counter and where the loop goes next
AfterFailure(n) == IF n + 1 >= FailureThreshold THEN "rec_lock" ELSE "sleep"

\* line 90-100: camera.read() returns, camera_lock is released, the counter
\* is updated; with record the history of the handles whose reads failed is
\* kept as well
ReadEnd(record) ==
    /\ cap_pc = "read"
    /\ camera_lock' = Free
    /\ \E ret \in BOOLEAN :
          IF ret
          THEN /\ nextFrame <= MaxFrames
               /\ cap_frame' = MkFrame(nextFrame, camera.id)
               /\ nextFrame' = nextFrame + 1
               /\ consecutive_failures' = 0
               /\ failed_on' = {}
               /\ cap_pc' = "pub_lock"
          ELSE /\ cap_frame' = NoFrame
               /\ nextFrame' = nextFrame
               /\ consecutive_failures' = consecutive_failures + 1
               /\ failed_on' = IF record THEN failed_on \cup {camera.id} ELSE failed_on
               /\ cap_pc' = AfterFailure(consecutive_failures)
    /\ UNCHANGED <<camera, opened, nextHandle, bufVars, connVars,
                   idxVars, rdVars>>

CapReadEnd == ReadEnd(FALSE)

CapReadEndRecorded == ReadEnd(TRUE)

\* line 94
CapPubAcquire ==
    /\ cap_pc = "pub_lock"
    /\ CanAcquire(buffer_lock)
    /\ buffer_lock' = Cap
    /\ cap_pc' = "publish"
    /\ UNCHANGED <<devVars, frame_buffer, published, consecutive_failures, failed_on,
                   cap_frame, nextFrame, connVars, idxVars, rdVars>>

\* line 95
CapPublish ==
    /\ cap_pc = "publish"
    /\ frame_buffer' = Publish(frame_buffer, cap_frame)
    /\ published' = Append(published, cap_frame)
    /\ buffer_lock' = Free
    /\ cap_pc' = "sleep"
    /\ UNCHANGED <<devVars, consecutive_failures, failed_on, cap_frame, nextFrame,
                   connVars, idxVars, rdVars>>

\* line 108
CapSleep ==
    /\ cap_pc = "sleep"
    /\ cap_pc' = "lock"
    /\ UNCHANGED <<devVars, bufVars, consecutive_failures, failed_on, cap_frame,
                   nextFrame, connVars, idxVars, rdVars>>

\* line 102
CapRecAcquire ==
    /\ cap_pc = "rec_lock"
    /\ nextHandle <= MaxHandles
    /\ CanAcquire(camera_lock)
    /\ camera_lock' = Cap
    /\ cap_pc' = "rec_release"
    /\ UNCHANGED <<camera, opened, nextHandle, bufVars, consecutive_failures, failed_on,
                   cap_frame, nextFrame, connVars, idxVars, rdVars>>

\* a recovery that would also drop the published frame
CapRecRelease_ClearBuffer ==
    /\ cap_pc = "rec_release"
    /\ opened' = opened \ {camera.id}
    /\ frame_buffer' = NoFrame
    /\ cap_pc' = "rec_create"
    /\ UNCHANGED <<camera, nextHandle, camera_lock, buffer_lock, published,
                   consecutive_failures, failed_on, cap_frame, nextFrame, connVars,
                   idxVars, rdVars>>

\* line 103-104: device = camera.get(cv2.CAP_PROP_BACKEND); camera.release()
CapRecRelease ==
    /\ cap_pc = "rec_release"
    /\ opened' = opened \ {camera.id}
    /\ cap_pc' = "rec_create"
    /\ UNCHANGED <<camera, nextHandle, camera_lock, bufVars,
                   consecutive_failures, failed_on, cap_frame, nextFrame, connVars,
                   idxVars, rdVars>>

\* what recovery hands to cv2.VideoCapture: the backend identifier
RecoveryDevice(cam) == BackendId

\* cv2.VideoCapture(device, cv2.CAP_V4L2) with the backend identifier (a
\* float) as device: the binding rejects it with an exception, or takes it
\* as an index that opens or does not
RecoveryOutcomes == {"opened", "closed", "raise"}

\* line 105-106
CapRecCreate ==
    /\ cap_pc = "rec_create"
    /\ camera_lock' = Free
    /\ \E outcome \in RecoveryOutcomes :
          IF outcome = "raise"
          THEN /\ cap_pc' = "crashed"
               /\ UNCHANGED <<camera, opened, nextHandle, consecutive_failures,
                             failed_on>>
          ELSE /\ camera' = NewHandle(RecoveryDevice(camera), outcome = "opened")
               /\ opened' = IF outcome = "opened" THEN opened \cup {nextHandle}
                                                  ELSE opened
               /\ nextHandle' = nextHandle + 1
               /\ consecutive_failures' = 0
               /\ failed_on' = {}
               /\ cap_pc' = "sleep"
    /\ UNCHANGED <<bufVars, cap_frame, nextFrame, connVars, idxVars,
                   rdVars>>

\* ------------------- generate_frames (110-132) and GET /snapshot (185-205)
\* line 115 / 190: a viewer enters on buffer_lock alone
ViewerMayEnter_GlobalLock == CanAcquire(buffer_lock) /\ CanAcquire(camera_lock)
ViewerMayEnter == CanAcquire(buffer_lock)

RdAcquire(r) ==
    /\ rd_pc[r] = "lock"
    /\ ViewerMayEnter
    /\ buffer_lock' = r
    /\ rd_pc' = [rd_pc EXCEPT ![r] = "peek"]
    /\ UNCHANGED <<devVars, frame_buffer, published, capVars, connVars,
                   idxVars, rd_src, rd_img, rd_out, maxGiven>>

\* line 116 / 191: frame_buffer is None
BufferEmpty_Never(fb) == FALSE
BufferEmpty(fb) == fb = NoFrame

\* line 116-120: what a stream shows when frame_buffer is None
EmptyImage_Nothing == NoFrame
EmptyImage == Placeholder

\* line 116-122 / 191-194: the test of frame_buffer; on None the stream
\* draws the placeholder and the snapshot returns 400, both leaving the with
\* block; otherwise frame_buffer.copy() starts on the array frame_buffer
\* refers to
RdPeek(r) ==
    /\ rd_pc[r] = "peek"
    /\ IF BufferEmpty(frame_buffer)
       THEN /\ buffer_lock' = Free
            /\ IF r \in Streams
               THEN /\ rd_img' = [rd_img EXCEPT ![r] = EmptyImage]
                    /\ rd_pc' = [rd_pc EXCEPT ![r] = "encode"]
                    /\ UNCHANGED rd_out
               ELSE /\ rd_out' = [rd_out EXCEPT ![r] =
                                    [code |-> 400, body |-> "No frame available",
                                     data |-> NoJpeg]]
                    /\ rd_pc' = [rd_pc EXCEPT ![r] = "done"]
                    /\ UNCHANGED rd_img
            /\ UNCHANGED rd_src
       ELSE /\ rd_src' = [rd_src EXCEPT ![r] = frame_buffer]
            /\ rd_img' = [rd_img EXCEPT ![r] = [top |-> frame_buffer.top,
                                                bot |-> NoPixels]]
            /\ rd_pc' = [rd_pc EXCEPT ![r] = "copy"]
            /\ UNCHANGED <<buffer_lock, rd_out>>
    /\ UNCHANGED <<devVars, frame_buffer, published, capVars, connVars,
                   idxVars, maxGiven>>

Max(a, b) == IF a >= b THEN a ELSE b

\* line 122 / 194: copy() finishes and the with block is left
RdCopyEnd(r) ==
    /\ rd_pc[r] = "copy"
    /\ rd_img' = [rd_img EXCEPT ![r].bot = rd_src[r].bot]
    /\ rd_src' = [rd_src EXCEPT ![r] = NoFrame]
    /\ maxGiven' = Max(maxGiven, rd_src[r].bot.seq)
    /\ buffer_lock' = Free
    /\ rd_pc' = [rd_pc EXCEPT ![r] = "encode"]
    /\ UNCHANGED <<devVars, frame_buffer, published, capVars, connVars,
                   idxVars, rd_out>>

\* line 129-130: one multipart chunk
Chunk(jpeg) == [code |-> 200, body |-> "--frame image/jpeg", data |-> jpeg]

\* line 125-132: imencode fails (continue, nothing yielded) or the chunk is
\* yielded and the generator sleeps
StreamEncode_AbortOnFailure(s) ==
    /\ s \in Streams
    /\ rd_pc[s] = "encode"
    /\ \E ok \in BOOLEAN :
          IF ok
          THEN /\ rd_out' = [rd_out EXCEPT ![s] = Chunk(Jpeg(rd_img[s]))]
               /\ rd_pc' = [rd_pc EXCEPT ![s] = "sleep"]
               /\ UNCHANGED rd_img
          ELSE /\ rd_pc' = [rd_pc EXCEPT ![s] = "ended"]
               /\ rd_img' = [rd_img EXCEPT ![s] = NoFrame]
               /\ UNCHANGED rd_out
    /\ UNCHANGED <<devVars, bufVars, capVars, connVars, idxVars, rd_src,
                   maxGiven>>

StreamEncode(s) ==
    /\ s \in Streams
    /\ rd_pc[s] = "encode"
    /\ \E ok \in BOOLEAN :
          IF ok
          THEN /\ rd_out' = [rd_out EXCEPT ![s] = Chunk(Jpeg(rd_img[s]))]
               /\ rd_pc' = [rd_pc EXCEPT ![s] = "sleep"]
               /\ UNCHANGED rd_img
          ELSE /\ rd_pc' = [rd_pc EXCEPT ![s] = "lock"]
               /\ rd_img' = [rd_img EXCEPT ![s] = NoFrame]
               /\ UNCHANGED rd_out
    /\ UNCHANGED <<devVars, bufVars, capVars, connVars, idxVars, rd_src,
                   maxGiven>>

\* line 132
StreamSleep(s) ==
    /\ s \in Streams
    /\ rd_pc[s] = "sleep"
    /\ rd_pc' = [rd_pc EXCEPT ![s] = "lock"]
    /\ rd_out' = [rd_out EXCEPT ![s] = NoResponse]
    /\ rd_img' = [rd_img EXCEPT ![s] = NoFrame]
    /\ UNCHANGED <<devVars, bufVars, capVars, connVars, idxVars, rd_src,
                   maxGiven>>

\* line 196-205
SnapEncode(n) ==
    /\ n \in Snapshots
    /\ rd_pc[n] = "encode"
    /\ \E ok \in BOOLEAN :
          rd_out' = [rd_out EXCEPT ![n] =
                       IF ok THEN [code |-> 200, body |-> "image/jpeg",
                                   data |-> Jpeg(rd_img[n])]
                             ELSE [code |-> 500, body |-> "Failed to encode image",
                                   data |-> NoJpeg]]
    /\ rd_pc' = [rd_pc EXCEPT ![n] = "done"]
    /\ UNCHANGED <<devVars, bufVars, capVars, connVars, idxVars, rd_src,
                   rd_img, maxGiven>>

\* the response has been sent; the next GET /snapshot may arrive
SnapFinish(n) ==
    /\ n \in Snapshots
    /\ rd_pc[n] = "done"
    /\ rd_pc' = [rd_pc EXCEPT ![n] = "lock"]
    /\ rd_out' = [rd_out EXCEPT ![n] = NoResponse]
    /\ rd_img' = [rd_img EXCEPT ![n] = NoFrame]
    /\ UNCHANGED <<devVars, bufVars, capVars, connVars, idxVars, rd_src,
                   maxGiven>>

\* ------------------------------------------------------------ the program
\* module globals (17-20) and main() started without --device
Init ==
    /\ camera = None
    /\ opened = {}
    /\ nextHandle = 1
    /\ camera_lock = Free
    /\ frame_buffer = NoFrame
    /\ buffer_lock = Free
    /\ nextFrame = 1
    /\ cap_pc = "lock"
    /\ consecutive_failures = 0
    /\ failed_on = {}
    /\ cap_frame = NoFrame
    /\ conn_pc = "idle"
    /\ conn_args = NoArgs
    /\ conn_resp = NoResponse
    /\ idx_pc = "lock"
    /\ idx_status = NoStatus
    /\ rd_pc = [r \in Readers |-> "lock"]
    /\ rd_src = [r \in Readers |-> NoFrame]
    /\ rd_img = [r \in Readers |-> NoFrame]
    /\ rd_out = [r \in Readers |-> NoResponse]
    /\ published = <<>>
    /\ maxGiven = 0
    /\ conn_prev = FALSE

CaptureStep ==
    \/ CapAcquire
    \/ CapIdleWake
    \/ CapReadEnd
    \/ CapPubAcquire
    \/ CapPublish
    \/ CapSleep
    \/ CapRecAcquire
    \/ CapRecRelease
    \/ CapRecCreate

ConnectStep ==
    \/ ConnStart
    \/ ConnAcquire
    \/ ConnCreate
    \/ ConnConfig
    \/ ConnFinish

IndexStep ==
    \/ IdxAcquire
    \/ IdxQuery
    \/ IdxFinish

ReaderStep(r) ==
    \/ RdAcquire(r)
    \/ RdPeek(r)
    \/ RdCopyEnd(r)
    \/ StreamEncode(r)
    \/ StreamSleep(r)
    \/ SnapEncode(r)
    \/ SnapFinish(r)

Next ==
    \/ CaptureStep
    \/ ConnectStep
    \/ IndexStep
    \/ \E r \in Readers : ReaderStep(r)

Spec == Init /\ [][Next]_vars

\* main() started with --device (414-415): open_camera has run before the
\* capture thread starts
InitWithDevice ==
    /\ camera = [id |-> 1, dev |-> DefaultDevice, cfg |-> DriverCfg]
    /\ opened = {1}
    /\ nextHandle = 2
    /\ camera_lock = Free
    /\ frame_buffer = NoFrame
    /\ buffer_lock = Free
    /\ nextFrame = 1
    /\ cap_pc = "lock"
    /\ consecutive_failures = 0
    /\ failed_on = {}
    /\ cap_frame = NoFrame
    /\ conn_pc = "idle"
    /\ conn_args = NoArgs
    /\ conn_resp = NoResponse
    /\ idx_pc = "lock"
    /\ idx_status = NoStatus
    /\ rd_pc = [r \in Readers |-> "lock"]
    /\ rd_src = [r \in Readers |-> NoFrame]
    /\ rd_img = [r \in Readers |-> NoFrame]
    /\ rd_out = [r \in Readers |-> NoResponse]
    /\ published = <<>>
    /\ maxGiven = 0
    /\ conn_prev = FALSE

\* the device side: capture thread, POST /connect and GET / requests
NextDevice ==
    \/ CaptureStep
    \/ ConnectStep
    \/ IndexStep

SpecDevice == Init /\ [][NextDevice]_vars

\* the buffer side: capture thread, stream generators and snapshot requests
NextBuffer ==
    \/ CaptureStep
    \/ \E r \in Readers : ReaderStep(r)

SpecBuffer == (Init \/ InitWithDevice) /\ [][NextBuffer]_vars

\* the viewers beside the device side: capture thread, POST /connect
\* requests, stream generators and snapshot requests
NextViewers ==
    \/ CaptureStep
    \/ ConnectStep
    \/ \E r \in Readers : ReaderStep(r)

SpecViewers == Init /\ [][NextViewers]_vars

\* ================================================================ claims
Last(q) == q[Len(q)]
Whole(img) == img.top = img.bot
WasPublished(img) == \E i \in 1..Len(published) : published[i] = img
InWith(r) == rd_pc[r] \in {"peek", "copy"}
HasImage(r) == \/ rd_pc[r] \in {"encode", "sleep"}
               \/ rd_pc[r] = "done" /\ rd_out[r].code # 400
Moved(r) == rd_pc'[r] # rd_pc[r]

\* C1: under every interleaving of the capture thread's publish with stream
\* ticks and snapshot requests, a reader's copied image is the placeholder
\* (no frame yet) or one whole frame that was published before, and the
\* assignment to frame_buffer and a reader's copy are never in progress
\* together: each happens only while its thread holds buffer_lock.
C1_NoTornRead ==
    /\ \A r \in Readers :
          HasImage(r) => \/ r \in Streams /\ rd_img[r] = Placeholder
                         \/ Whole(rd_img[r]) /\ WasPublished(rd_img[r])
    /\ cap_pc = "publish" => buffer_lock = Cap
    /\ \A r \in Readers : InWith(r) => buffer_lock = r
    /\ ~(cap_pc = "publish" /\ \E r \in Readers : InWith(r))
    /\ \A r1, r2 \in Readers : InWith(r1) /\ InWith(r2) => r1 = r2

\* a publish is waiting for the lock while a stream is in the middle of its
\* copy, and a snapshot holds a whole copy of the frame published first
C1_Witness ==
    /\ cap_pc = "pub_lock"
    /\ cap_frame = MkFrame(2, 1)
    /\ \E s \in Streams : rd_pc[s] = "copy" /\ rd_img[s].bot = NoPixels
    /\ \E n \in Snapshots : rd_pc[n] = "encode" /\ rd_img[n] = published[1]

\* C2 (as claimed): when open_camera fails to open the requested path while
\* a device was open, the request answers 400 and the device handle state is
\* what it was before the request: camera still is the device that was open,
\* so GET / still reports it connected.
C2_FailedOpenKeepsDevice ==
    [][(conn_pc = "create" /\ conn_pc' = "done" /\ conn_resp'.code = 400 /\ conn_prev)
         => (camera' = camera /\ camera'.id \in opened')]_vars

\* C3 (as claimed): the capture loop goes to recovery exactly when the
\* counter reaches 5, a successful read resets the counter, and the one
\* reopen attempt releases the device and opens it again, after which the
\* counter is 0 and the loop goes on with that device.
C3_ReopenAtFive ==
    [][/\ (cap_pc = "read" /\ cap_pc' = "rec_lock") <=>
              (cap_pc = "read" /\ consecutive_failures' = FailureThreshold)
       /\ (cap_pc = "read" /\ cap_pc' = "pub_lock") => consecutive_failures' = 0
       /\ (cap_pc = "rec_create" /\ cap_pc' # "rec_create") =>
              /\ cap_pc' = "sleep"
              /\ consecutive_failures' = 0
              /\ camera'.id # camera.id
              /\ camera'.dev = camera.dev]_vars

\* C4 (as claimed): after a recovery reopen that failed to open the device,
\* the loop keeps calling read on the device handle (and so counts failures
\* towards the next reopen attempt).
C4_FailedReopenKeepsReading ==
    [][(cap_pc = "lock" /\ cap_pc' # "lock" /\ camera.dev = BackendId
          /\ ~isOpened(camera)) => cap_pc' = "read"]_vars

\* C5: in every reachable state at most one VideoCapture object is open, and
\* it is the one the global camera refers to.
C5_OneOpenHandle ==
    /\ Cardinality(opened) <= 1
    /\ opened \subseteq {camera.id}

\* open_camera has replaced a device that was open by a newly opened one
C5_Witness ==
    /\ conn_prev
    /\ conn_pc = "done"
    /\ conn_resp.code = 200
    /\ camera.id = 2
    /\ opened = {2}

\* C6: the operations on the device handle exclude each other: a thread is
\* inside a device read, the idle wait, the release/create of recovery, an
\* open_camera call or the status query of GET / only while it holds
\* camera_lock, so at most one of them is in progress, and the handle is
\* neither released nor replaced while a read on it is in flight.
InDeviceOp(t) ==
    CASE t = Cap -> cap_pc \in {"idle", "read", "rec_release", "rec_create"}
      [] t = Conn -> conn_pc \in {"create", "config"}
      [] t = Idx -> idx_pc = "query"

C6_DeviceOpsExclusive ==
    /\ \A t \in {Cap, Conn, Idx} : InDeviceOp(t) => camera_lock = t
    /\ \A t1, t2 \in {Cap, Conn, Idx} : InDeviceOp(t1) /\ InDeviceOp(t2) => t1 = t2
    /\ cap_pc = "read" => isOpened(camera) /\ conn_pc \notin {"create", "config"}

\* a read is in flight on a connected device while a second POST /connect
\* and a GET / wait for the lock
C6_Witness ==
    /\ cap_pc = "read"
    /\ camera.id = 1
    /\ conn_pc = "lock"
    /\ idx_pc = "lock"
    /\ idx_status.status = "Connected"

\* C7: a stream tick that finds no frame published takes the placeholder
\* image and, when the encode succeeds, yields a chunk carrying it; the
\* stream's steps need buffer_lock only, so the tick goes ahead whoever holds
\* camera_lock and whether or not a device is open.
C7_PlaceholderChunk ==
    /\ [](\A s \in Streams :
            \/ ENABLED ReaderStep(s)
            \/ rd_pc[s] = "lock" /\ buffer_lock # Free)
    /\ [][\A s \in Streams :
            /\ (rd_pc[s] = "peek" /\ Moved(s) /\ published = <<>>) =>
                  (rd_pc'[s] = "encode" /\ rd_img'[s] = Placeholder)
            /\ (rd_pc[s] = "encode" /\ rd_pc'[s] = "sleep") =>
                  rd_out'[s] = Chunk(Jpeg(rd_img[s]))]_vars

\* the placeholder chunk has been yielded while no device was ever opened
\* and the capture thread sleeps holding camera_lock
C7_Witness ==
    /\ camera = None
    /\ camera_lock = Cap
    /\ published = <<>>
    /\ \E s \in Streams : rd_pc[s] = "sleep" /\ rd_out[s] = Chunk(Jpeg(Placeholder))

\* C8: GET /snapshot answers 400 "No frame available" exactly when nothing
\* has been published at its buffer read; otherwise it copies the latest
\* published frame and answers 200 with its encoding, or 500 when the
\* encoding fails. No step of the request changes frame_buffer or the device
\* handle.
C8_Snapshot ==
    [][\A n \in Snapshots :
         /\ (rd_pc[n] = "peek" /\ Moved(n)) =>
               /\ (published = <<>>) <=> (rd_pc'[n] = "done")
               /\ rd_pc'[n] = "done" =>
                     (rd_out'[n].code = 400 /\ rd_out'[n].body = "No frame available")
               /\ rd_pc'[n] # "done" => rd_src'[n] = Last(published)
         /\ (rd_pc[n] = "copy" /\ Moved(n)) => rd_img'[n] = rd_src[n]
         /\ (rd_pc[n] = "encode" /\ Moved(n)) =>
               \/ rd_out'[n].code = 200 /\ rd_out'[n].data = Jpeg(rd_img[n])
               \/ rd_out'[n].code = 500
         /\ Moved(n) => (frame_buffer' = frame_buffer /\ published' = published
                           /\ camera' = camera /\ opened' = opened)]_vars

\* a snapshot has answered 200 with the second frame after the first one
\* was replaced
C8_Witness ==
    /\ Len(published) = 2
    /\ \E n \in Snapshots :
          /\ rd_pc[n] = "done"
          /\ rd_out[n].code = 200
          /\ rd_out[n].data = Jpeg(published[2])

\* C9: the buffer holds exactly the frame of the latest publish; every buffer
\* read takes that frame, and no reader is given a frame older than one that
\* was given out before (the same frame again is allowed).
C9_LatestFrame ==
    /\ [](frame_buffer = IF published = <<>> THEN NoFrame ELSE Last(published))
    /\ [][\A r \in Readers :
            /\ (rd_pc[r] = "peek" /\ Moved(r) /\ published # <<>>) =>
                  (rd_pc'[r] = "copy" /\ rd_src'[r] = Last(published))
            /\ (rd_pc[r] = "copy" /\ Moved(r)) =>
                  /\ rd_img'[r] = rd_src[r]
                  /\ rd_img'[r].top.seq >= maxGiven]_vars

\* both readers have been given the second frame, one after the other
C9_Witness ==
    /\ Len(published) = 2
    /\ maxGiven = 2
    /\ \A r \in Readers : rd_pc[r] = "encode" /\ rd_img[r] = published[2]

\* C10: viewers never take camera_lock and nobody holds buffer_lock while
\* holding or waiting for camera_lock; so whoever holds camera_lock, each
\* viewer either can take its next step or waits for a buffer_lock holder
\* that can.
HolderStep(t) == IF t = Cap THEN CaptureStep ELSE ReaderStep(t)

C10_ViewersIndependent ==
    /\ camera_lock \notin Readers
    /\ buffer_lock \in {Free, Cap} \cup Readers
    /\ buffer_lock = Cap => cap_pc = "publish" /\ camera_lock # Cap
    /\ \A r \in Readers :
          \/ ENABLED ReaderStep(r)
          \/ buffer_lock \notin {Free, r} /\ ENABLED HolderStep(buffer_lock)

\* open_camera holds camera_lock (configuring the new device) while a stream
\* is inside its buffer read and a snapshot has finished its own
C10_Witness ==
    /\ camera_lock = Conn
    /\ conn_pc = "config"
    /\ \E s \in Streams : buffer_lock = s /\ rd_pc[s] = "copy"
    /\ \E n \in Snapshots : rd_pc[n] = "encode"

\* C11 (as claimed): a viewer that starts reading the frame buffer is never
\* made to wait, whether the capture thread is publishing or another reader
\* is copying.
C11_PeekNeverWaits ==
    \A r \in Readers : rd_pc[r] = "lock" => ENABLED RdAcquire(r)

\* C11 (amended): a viewer waits for buffer_lock only while the capture
\* thread is inside its assignment to frame_buffer or another reader is
\* inside its test and copy; that holder waits for nothing and can finish,
\* and a viewer never waits anywhere else.
C11_PeekWaitsOnlyForHolder ==
    \A r \in Readers :
       IF rd_pc[r] = "lock"
       THEN \/ ENABLED RdAcquire(r)
            \/ buffer_lock = Cap /\ cap_pc = "publish" /\ ENABLED CapPublish
            \/ \E q \in Readers \ {r} :
                  /\ buffer_lock = q
                  /\ InWith(q)
                  /\ ENABLED (RdPeek(q) \/ RdCopyEnd(q))
       ELSE ENABLED ReaderStep(r)

\* a stream waits for the lock while the capture thread assigns the second
\* frame, and a snapshot waits behind it too
C11_Witness ==
    /\ cap_pc = "publish"
    /\ buffer_lock = Cap
    /\ Len(published) = 1
    /\ \A r \in Readers : rd_pc[r] = "lock"

\* C12 (as claimed): whatever the form fields, POST /connect completes with
\* the success response (200) or the failure response (400), never a hard
\* failure, and it answers 200 exactly when the device handle is open on
\* return.
C12_ConnectNeverFailsHard ==
    [][(conn_pc # "done" /\ conn_pc' = "done") =>
         /\ conn_resp'.code \in {200, 400}
         /\ conn_resp'.code = 200 <=> camera'.id \in opened']_vars

\* C13 (as claimed): whatever the device reads, the recovery reopens and the
\* connect requests do, the capture thread is always at a point of its loop,
\* never in a terminal or crashed state.
C13_CaptureNeverEnds ==
    cap_pc \in {"lock", "idle", "read", "pub_lock", "publish", "sleep",
                "rec_lock", "rec_release", "rec_create"}

\* the capture thread and POST /connect requests under fair scheduling: a
\* thread that can take its next step without interruption eventually takes
\* it (every sleep and device call returns); threading.Lock hands the lock
\* to no waiter in particular, so an acquire is only weakly fair
NextConnect ==
    \/ CaptureStep
    \/ ConnectStep

SpecConnectFair ==
    /\ Init
    /\ [][NextConnect]_vars
    /\ WF_vars(CaptureStep)
    /\ WF_vars(ConnAcquire \/ ConnCreate \/ ConnConfig)

\* C14 (as claimed): a POST /connect issued while the capture loop polls
\* with no device open eventually gets camera_lock and returns.
C14_ConnectGetsLock ==
    (conn_pc = "lock" /\ NotConnected) ~> (conn_pc = "done")

\* C15: a failed encode yields nothing and sends the generator straight
\* back to the buffer read; a successful one yields the chunk of the image
\* just read and is followed by the sleep, after which the buffer is read
\* again; the generator is always at a point of its loop.
C15_EncodeFailureSkips ==
    /\ [](\A s \in Streams : rd_pc[s] \in {"lock", "peek", "copy", "encode", "sleep"})
    /\ [][\A s \in Streams :
            /\ (rd_pc[s] = "encode" /\ Moved(s)) =>
                  \/ /\ rd_pc'[s] = "sleep"
                     /\ rd_out'[s] = Chunk(Jpeg(rd_img[s]))
                  \/ /\ rd_pc'[s] = "lock"
                     /\ rd_out'[s] = NoResponse
            /\ (rd_out'[s] # rd_out[s] /\ rd_out'[s] # NoResponse) => rd_pc'[s] = "sleep"
            /\ (rd_pc[s] = "sleep" /\ Moved(s)) => rd_pc'[s] = "lock"
            /\ (rd_pc'[s] = "peek" /\ Moved(s)) => rd_pc[s] = "lock"]_vars

\* a stream holds the copy of the newest frame and its encode can fail
\* here: the step that yields nothing and goes back to the buffer read is
\* possible
C15_Witness ==
    \E s \in Streams :
       /\ rd_pc[s] = "encode"
       /\ rd_img[s].top.seq = 2
       /\ rd_out[s] = NoResponse
       /\ ENABLED (StreamEncode(s) /\ rd_pc'[s] = "lock" /\ rd_out'[s] = NoResponse)

\* every thread of the program side by side: the capture thread, POST
\* /connect, GET /, a stream generator and a snapshot request. The connect
\* requests name no device, no size and at most a malformed fourcc (the
\* form fields decide what is negotiated, not which lock is taken), and the
\* device delivers at most LockFrames frames.
LockFrames == 1

BareForm ==
    /\ conn_resp' = NoResponse
    /\ conn_args'.device = DefaultDevice
    /\ conn_args'.width = ParseDim(<<>>)
    /\ conn_args'.height = ParseDim(<<>>)
    /\ Len(conn_args'.fourcc) # 4

LocksConnStart == ConnStart /\ BareForm

LocksReadEnd == CapReadEnd /\ nextFrame' <= LockFrames + 1

NextLocks ==
    \/ CapAcquire
    \/ CapIdleWake
    \/ LocksReadEnd
    \/ CapPubAcquire
    \/ CapPublish
    \/ CapSleep
    \/ CapRecAcquire
    \/ CapRecRelease
    \/ CapRecCreate
    \/ LocksConnStart
    \/ ConnAcquire
    \/ ConnCreate
    \/ ConnConfig
    \/ ConnFinish
    \/ IndexStep
    \/ \E r \in Readers : ReaderStep(r)

SpecLocks == Init /\ [][NextLocks]_vars

HoldsInside(t) ==
    CASE t = Cap -> cap_pc = "publish"
      [] OTHER -> InWith(t)

ThreadStep(t) ==
    CASE t = Cap -> CaptureStep
      [] t = Conn -> ConnectStep
      [] t = Idx -> IndexStep
      [] OTHER -> ReaderStep(t)

\* C16: no thread holds camera_lock and buffer_lock together; a held lock
\* belongs to a thread that is inside the with block of that lock and can
\* take its next step without waiting for anything, so the lock is released
\* on every path (the idle continue, the failed open, the exception paths,
\* the empty-buffer return of snapshot); a thread outside a with block holds
\* nothing; and some thread can always step: there is no deadlock.
C16_NoDeadlock ==
    /\ \A t \in {Cap, Conn, Idx} \cup Readers : ~(camera_lock = t /\ buffer_lock = t)
    /\ camera_lock \in {Free, Cap, Conn, Idx}
    /\ buffer_lock \in {Free, Cap} \cup Readers
    /\ camera_lock # Free =>
          /\ InDeviceOp(camera_lock)
          /\ ENABLED ThreadStep(camera_lock)
    /\ buffer_lock # Free =>
          /\ HoldsInside(buffer_lock)
          /\ ENABLED ThreadStep(buffer_lock)
    /\ \A t \in {Cap, Conn, Idx} : InDeviceOp(t) => camera_lock = t
    /\ \A t \in {Cap} \cup Readers : HoldsInside(t) => buffer_lock = t
    /\ ENABLED NextLocks

\* both locks are held, by different threads, while every other thread
\* waits for one of them: the capture thread publishes, a second POST
\* /connect configures its device, GET / and the viewers wait
C16_Witness ==
    /\ buffer_lock = Cap
    /\ camera_lock = Conn
    /\ conn_pc = "config"
    /\ camera.id = 2
    /\ idx_pc = "lock"
    /\ \A r \in Readers : rd_pc[r] = "lock"

\* C17: once a frame has been published frame_buffer is never empty again,
\* whatever the device reads, the recovery and the connect requests do; a
\* reader that tests the buffer from then on copies a published frame: a
\* stream tick does not take the placeholder and a snapshot does not answer
\* 400.
C17_BufferStaysFull ==
    /\ [](Len(published) > 0 => frame_buffer # NoFrame)
    /\ [][frame_buffer # NoFrame => frame_buffer' # NoFrame]_vars
    /\ [][\A r \in Readers :
            (Len(published) > 0 /\ rd_pc[r] = "peek" /\ Moved(r)) =>
               /\ rd_pc'[r] = "copy"
               /\ WasPublished(rd_src'[r])
               /\ rd_img'[r] # Placeholder
               /\ rd_out'[r] = rd_out[r]]_vars

\* the device delivered one frame and a later POST /connect released it and
\* failed to open another: no device is open, the frame is still in the
\* buffer and a snapshot is copying it
C17_Witness ==
    /\ frame_buffer = MkFrame(1, 1)
    /\ camera.id = 2
    /\ NotConnected
    /\ conn_pc = "done"
    /\ conn_resp.code = 400
    /\ \E n \in Snapshots : rd_pc[n] = "copy" /\ rd_src[n] = frame_buffer

\* C18 (as claimed): a frame the capture loop publishes was read from the
\* device handle that is current at the publish: when no open_camera call
\* is in progress, the frame assigned to frame_buffer carries the id of the
\* handle in camera.
C18_PublishFromCurrent ==
    [][(cap_pc = "publish" /\ cap_pc' = "sleep" /\ conn_pc \notin {"create", "config"}) =>
         /\ frame_buffer'.top.hid = camera.id
         /\ frame_buffer'.bot.hid = camera.id]_vars

\* the device side with the history of failed reads recorded
CaptureStepRecorded ==
    \/ CapAcquire
    \/ CapIdleWake
    \/ CapReadEndRecorded
    \/ CapPubAcquire
    \/ CapPublish
    \/ CapSleep
    \/ CapRecAcquire
    \/ CapRecRelease
    \/ CapRecCreate

NextRecovery ==
    \/ CaptureStepRecorded
    \/ ConnectStep
    \/ IndexStep

SpecRecovery == Init /\ [][NextRecovery]_vars

\* C19 (as claimed): recovery acts on the handle whose reads failed: the
\* failed reads that bring the counter to the threshold were all made on one
\* handle, the handle recovery releases is that one, and a device that POST
\* /connect opened with success is closed only by a later open_camera call
\* or by a recovery that counted five failed reads of that device.
C19_RecoveryOnFailedHandle ==
    /\ [][(cap_pc = "read" /\ cap_pc' = "rec_lock") =>
            failed_on' = {camera.id}]_vars
    /\ [][(cap_pc = "rec_release" /\ cap_pc' = "rec_create") =>
            failed_on = {camera.id}]_vars
    /\ [][\A h \in 1..MaxHandles :
            (h \in opened /\ h \notin opened') =>
               \/ conn_pc = "lock" /\ conn_pc' = "create"
               \/ /\ cap_pc = "rec_release"
                  /\ failed_on = {h}
                  /\ consecutive_failures >= FailureThreshold]_vars

====
